---- MODULE Spec2Model ----
(***************************************************************************)
(* Aetherion Ascent: the chunk-based platform generator (PlatformGenerator)*)
(* with the collaborators it touches: the scene's light manager, the       *)
(* CoinSystem and the VoidSystem.                                          *)
(*                                                                         *)
(* Units.  Vertical quantities are pixels.  Horizontal positions (x, minX, *)
(* maxX, offsets, body.x) are kept in HALF-pixels, so that width / 2 of an *)
(* odd width is exact: a platform of `width` pixels centred at x spans     *)
(* x - width .. x + width in half-pixels.  Px(n) converts pixels.          *)
(*                                                                         *)
(* Randomness.  Math.random() is a stream of values r / RNG_MOD in [0,1);  *)
(* the stream a handler call sees starts from a seed chosen by \E.         *)
(***************************************************************************)
EXTENDS Integers, Sequences, FiniteSets, TLC

VARIABLES
  viewW,                 \* scene.cameras.main.width  (pixels)
  viewH,                 \* scene.cameras.main.height (pixels)
  platforms,             \* PlatformGenerator.platforms (array, in push order)
  lightEmitterPlatforms, \* PlatformGenerator.lightEmitterPlatforms
  platformGroup,         \* ids of the sprites in the static physics group
  sceneLights,           \* lights registered with scene.lights
  coins,                 \* CoinSystem.coins
  stats,                 \* PlatformGenerator.stats
  nextChunkY,            \* PlatformGenerator.nextChunkY
  lastGeneratedY,        \* PlatformGenerator.lastGeneratedY
  chunksGenerated,       \* PlatformGenerator.chunksGenerated
  wallBounceDirection,   \* PlatformGenerator.wallBounceDirection (0 = undefined / null)
  voidY,                 \* VoidSystem.voidY
  currentSpeed,          \* VoidSystem.currentSpeed, in tenths of a pixel per second
  destructionThreshold,  \* VoidSystem.destructionThreshold: <<>> until stored, then <<y>>
  destroyCalls,          \* history: ids handed to destroyPlatform, in call order
  manualCalls,           \* history: number of direct createUnifiedPlatform calls
  voidSteps,             \* history: number of updateVoidMovement calls
  ret                    \* history: the last operation, its arguments and result

vars == <<viewW, viewH, platforms, lightEmitterPlatforms, platformGroup,
          sceneLights, coins, stats, nextChunkY, lastGeneratedY,
          chunksGenerated, wallBounceDirection, voidY, currentSpeed,
          destructionThreshold, destroyCalls, manualCalls, voidSteps, ret>>

\* ------------------------------------------------------------------ bounds
MaxSeed == 1            \* random streams 0..MaxSeed per handler call
MaxChunks == 4          \* cap on chunksGenerated (3 come from construction)
MaxManual == 1          \* cap on direct createUnifiedPlatform calls
MaxVoidSteps == 1       \* cap on updateVoidMovement calls
MaxStream == 127        \* random streams 0..MaxStream of a calculateNextPlatformPosition call
MaxWidthIndex == 3      \* widths tried: MaxWidthIndex + 1 values from min to max width
MaxViewportStep == 1    \* viewports GAME_WIDTH +- k * 128, GAME_HEIGHT +- k * 96
MaxRunChunks == 5       \* cap on chunksGenerated in the ticks-only climb

\* ------------------------------------------------------- program constants
GAME_WIDTH == 1024
GAME_HEIGHT == 768
VOID_RISE_SPEED == 10
PLATFORM_MIN_WIDTH == 120
PLATFORM_MAX_WIDTH == 280
PLATFORM_THICKNESS == 20
CHUNK_HEIGHT == 800
PLATFORM_DESTRUCTION_OFFSET == 200
MIN_HORIZONTAL_GAP == 60
MAX_HORIZONTAL_GAP == 120
VERTICAL_SPACING_MIN == 80
VERTICAL_SPACING_MAX == 140
SAFE_SPAWN_DISTANCE == 800
STEPPING_STONE_MIN == 40
STEPPING_STONE_MAX == 55
LIGHT_PLATFORM_CHANCE_PCT == 15
COIN_PLATFORM_CHANCE_PCT == 25
MIN_VISIBLE_WIDTH == 60
CLAMP_MARGIN == 50
SCREEN_MARGIN == 80
\* CONFIG.PERFORMANCE.MAX_VISIBLE_PLATFORMS, read by the constructor
MAX_VISIBLE_PLATFORMS == 50
maxActivePlatforms == MAX_VISIBLE_PLATFORMS
WALL_BOUNCE == 20

NULL == 0               \* the null a rejected createUnifiedPlatform returns

\* ------------------------------------------------------------ arithmetic
Px(n) == 2 * n
Max(a, b) == IF a >= b THEN a ELSE b
Min(a, b) == IF a <= b THEN a ELSE b
Abs(a) == IF a >= 0 THEN a ELSE -a
Clamp(v, lo, hi) == Max(lo, Min(hi, v))
\* The element of a singleton set.  { e(v) : v \in {expr} } computes expr once
\* and names its value v, as a local constant of the code does.
Val(S) == CHOOSE v \in S : TRUE

\* ------------------------------------------------------------ Math.random
RNG_MOD == 2^16
NextRand(s) == (s * 25173 + 13849) % RNG_MOD
SeedState(seed) == (seed * 7102 + 4242) % RNG_MOD
Seeds == 0..MaxSeed

\* Math.random() < pct / 100, for the stream value r
RandomBelow(r, pct) == r * 100 < pct * RNG_MOD
\* Phaser.Math.Between(lo, hi) = Math.floor(Math.random() * (hi - lo + 1) + lo)
Between(r, lo, hi) == lo + ((r * (hi - lo + 1)) \div RNG_MOD)

\* Math.sin(chunks * 0.4 + currentY * 0.01) > 0, on n = 40 * chunks + currentY
\* (the angle in hundredths of a radian, scaled by 10^5: 2*pi = 62831853)
SinPositive(n) ==
  LET m == (n * 100000) % 62831853
  IN  m > 0 /\ m < 31415927

\* ------------------------------------------------------- lights and coins
\* A light handle names the object it was created for and its purpose.
NoLight == [owner |-> 0, kind |-> "none"]
Light(owner, kind) == [owner |-> owner, kind |-> kind]

\* ------------------------------------------------- wouldOverlapExistingPlatform
\* x is the candidate's centre in half-pixels; width, height in pixels.
WouldOverlapNever(ps, x, y, width, height) == FALSE
WouldOverlapCentreOnly(ps, x, y, width, height) ==
  \E i \in 1..Len(ps) :
    LET b == ps[i].body
    IN  /\ x > b.x /\ x < b.x + Px(b.width)
        /\ 2 * y > 2 * b.y /\ 2 * y < 2 * (b.y + b.height)
WouldOverlapOrTouch(ps, x, y, width, height) ==
  \E i \in 1..Len(ps) :
    LET b == ps[i].body
    IN  /\ x - width <= b.x + Px(b.width) /\ x + width >= b.x
        /\ 2 * y - height <= 2 * (b.y + b.height) /\ 2 * y + height >= 2 * b.y
WouldOverlapExistingPlatform(ps, x, y, width, height) ==
  LET newLeft == x - width            \* x - width / 2
      newRight == x + width           \* x + width / 2
      newTop2 == 2 * y - height       \* 2 * (y - height / 2)
      newBottom2 == 2 * y + height
  IN  \E i \in 1..Len(ps) :
        LET existingLeft == ps[i].body.x
            existingRight == ps[i].body.x + Px(ps[i].body.width)
            existingTop2 == 2 * ps[i].body.y
            existingBottom2 == 2 * (ps[i].body.y + ps[i].body.height)
            xOverlap == newLeft < existingRight /\ newRight > existingLeft
            yOverlap == newTop2 < existingBottom2 /\ newBottom2 > existingTop2
        IN  xOverlap /\ yOverlap

\* ------------------------------------------------------ createUnifiedPlatform
\* Step 4 replaces platformData by a fresh object: the outlineLight handle
\* stored in step 2 is not among its keys.
PlatformData(hasLight, clampedWidth, x, clampedX, outlineLight) ==
  [isLightEmitter |-> hasLight, width |-> clampedWidth, light |-> NoLight,
   outlineLight |-> NoLight, originalX |-> x, clampedX |-> clampedX]

NewPlatformBodyAtCentre(id, clampedX, y, clampedWidth, hasLight, x, origin) ==
  [id |-> id, x |-> clampedX, y |-> y,
   displayWidth |-> clampedWidth, displayHeight |-> PLATFORM_THICKNESS,
   body |-> [x |-> clampedX, y |-> y,
             width |-> clampedWidth, height |-> PLATFORM_THICKNESS],
   platformData |-> PlatformData(hasLight, clampedWidth, x, clampedX,
                                 Light(id, "outline")),
   chunk |-> origin.chunk, slot |-> origin.slot]

\* The sprite and its static body after steps 1-4.  body.y is the top edge.
NewPlatform(id, clampedX, y, clampedWidth, hasLight, x, origin) ==
  [id |-> id, x |-> clampedX, y |-> y,
   displayWidth |-> clampedWidth, displayHeight |-> PLATFORM_THICKNESS,
   body |-> [x |-> clampedX - clampedWidth, y |-> y - PLATFORM_THICKNESS \div 2,
             width |-> clampedWidth, height |-> PLATFORM_THICKNESS],
   platformData |-> PlatformData(hasLight, clampedWidth, x, clampedX,
                                 Light(id, "outline")),
   chunk |-> origin.chunk, slot |-> origin.slot]

\* createPlatformLight: registers the light and stores it in platformData.light
CreatePlatformLight(p) ==
  [p EXCEPT !.platformData.light = Light(p.id, "emitter")]

\* Step 9: the coin draw, and CoinSystem.createCoin with its coin light.
\* Returns the generator state with the coin added and the stream advanced.
CoinStep(g, p) ==
  LET r == NextRand(g.rng)
  IN  IF RandomBelow(r, COIN_PLATFORM_CHANCE_PCT)
      THEN [g EXCEPT
              !.coins = Append(@, [platform |-> p.id, light |-> Light(p.id, "coin")]),
              !.sceneLights = @ \cup {Light(p.id, "coin")},
              \* coinX, getRandomCoinColor and bounceOffset draw three more
              !.rng = NextRand(NextRand(NextRand(r)))]
      ELSE [g EXCEPT !.rng = r]

InvalidPlatformParameters(x, y, width) == width <= 0

\* g is the generator with its collaborators; origin = [chunk, slot] tags the
\* caller (history only).  Returns [g |-> state after, value |-> id or NULL].
CreateUnifiedPlatform(g, x, y, width, hasLight, origin) ==
  IF InvalidPlatformParameters(x, y, width)
  THEN [g |-> g, value |-> NULL]
  ELSE
    LET clampedX == Clamp(x, Px(CLAMP_MARGIN), Px(g.viewW) - Px(CLAMP_MARGIN))
        clampedWidth == Max(width, MIN_VISIBLE_WIDTH)
    IN  IF WouldOverlapExistingPlatform(g.platforms, clampedX, y, clampedWidth,
                                        PLATFORM_THICKNESS)
        THEN [g |-> g, value |-> NULL]
        ELSE
          LET id == g.stats.totalPlatforms + 1
              p0 == NewPlatform(id, clampedX, y, clampedWidth, hasLight, x, origin)
              p == IF hasLight THEN CreatePlatformLight(p0) ELSE p0
              g1 == [g EXCEPT
                       !.sceneLights = @ \cup {Light(id, "outline")}
                                         \cup (IF hasLight THEN {Light(id, "emitter")}
                                               ELSE {}),
                       !.platforms = Append(@, p),
                       !.platformGroup = @ \cup {id},
                       !.lightEmitterPlatforms =
                          IF hasLight THEN Append(@, p) ELSE @,
                       !.stats = [totalPlatforms |-> @.totalPlatforms + 1,
                                  lightEmitterPlatforms |->
                                    @.lightEmitterPlatforms
                                      + (IF hasLight THEN 1 ELSE 0)]]
          IN  [g |-> CoinStep(g1, p), value |-> id]

\* ------------------------------------- createUnifiedPlatform, any JS argument
\* A JavaScript value that is a number, NaN, an infinity or undefined.
Num(n) == [kind |-> "number", n |-> n]
NaN == [kind |-> "NaN", n |-> 0]
PosInfinity == [kind |-> "+Infinity", n |-> 0]
NegInfinity == [kind |-> "-Infinity", n |-> 0]
Undefined == [kind |-> "undefined", n |-> 0]
Null == [kind |-> "null", n |-> 0]
\* the number a relational operator compares: null is 0, undefined is NaN
ToNumber(a) ==
  IF a.kind = "null" THEN Num(0) ELSE IF a.kind = "undefined" THEN NaN ELSE a

\* ToNumber(undefined) is NaN
IsNaN(a) == a.kind \in {"NaN", "undefined"}
IsFinite(a) == a.kind = "number"
Rank(a) == IF a.kind = "-Infinity" THEN 0 - 1 ELSE IF a.kind = "+Infinity" THEN 1 ELSE 0
\* a < b, a > b and a <= b: false as soon as one side is NaN
JsLess(a, b) ==
  /\ ~IsNaN(a) /\ ~IsNaN(b)
  /\ IF Rank(a) # Rank(b) THEN Rank(a) < Rank(b) ELSE IsFinite(a) /\ a.n < b.n
JsGreater(a, b) == JsLess(b, a)
JsLessEq(a, b) == ~IsNaN(a) /\ ~IsNaN(b) /\ ~JsLess(b, a)
\* a + k and 2 * a for a finite k
JsAdd(a, k) == IF IsNaN(a) THEN NaN ELSE IF IsFinite(a) THEN Num(a.n + k) ELSE a
JsDouble(a) == IF IsNaN(a) THEN NaN ELSE IF IsFinite(a) THEN Num(2 * a.n) ELSE a
\* Math.min, Math.max and Phaser.Math.Clamp = Math.max(min, Math.min(max, value))
JsMin(a, b) == IF IsNaN(a) \/ IsNaN(b) THEN NaN ELSE IF JsLess(b, a) THEN b ELSE a
JsMax(a, b) == IF IsNaN(a) \/ IsNaN(b) THEN NaN ELSE IF JsLess(a, b) THEN b ELSE a
JsClamp(value, min, max) == JsMax(min, JsMin(max, value))
\* !width
Falsy(a) == IsNaN(a) \/ (IsFinite(a) /\ a.n = 0)

\* Platforms committed from JS arguments keep their coordinates as JS values
\* and are tagged chunk = -1; all others hold plain numbers.
RawOrigin == [chunk |-> 0 - 1, slot |-> 0]
BodyOf(p) ==
  IF p.chunk = RawOrigin.chunk THEN p.body
  ELSE [p.body EXCEPT !.x = Num(p.body.x), !.y = Num(p.body.y)]

\* wouldOverlapExistingPlatform with the comparisons of JavaScript
WouldOverlapExistingPlatformJs(ps, x, y, width, height) ==
  LET newLeft == JsAdd(x, 0 - width)
      newRight == JsAdd(x, width)
      newTop2 == JsAdd(JsDouble(y), 0 - height)
      newBottom2 == JsAdd(JsDouble(y), height)
  IN  \E i \in 1..Len(ps) :
        LET b == BodyOf(ps[i])
            existingLeft == b.x
            existingRight == JsAdd(b.x, Px(b.width))
            existingTop2 == JsDouble(b.y)
            existingBottom2 == JsDouble(JsAdd(b.y, b.height))
            xOverlap == JsLess(newLeft, existingRight) /\ JsGreater(newRight, existingLeft)
            yOverlap == JsLess(newTop2, existingBottom2) /\ JsGreater(newBottom2, existingTop2)
        IN  xOverlap /\ yOverlap

\* the validation of createUnifiedPlatform as the code writes it
InvalidPlatformParametersJs(x, y, width) ==
  \/ x.kind = "undefined"
  \/ y.kind = "undefined"
  \/ Falsy(width)
  \/ JsLessEq(width, Num(0))

\* createUnifiedPlatform(x, y, width) with x, y and width any JS value
\* (width finite once validated); hasLight is left at its default, false.
CreateUnifiedPlatformJs(g, x, y, width) ==
  IF InvalidPlatformParametersJs(x, y, width)
  THEN [g |-> g, value |-> NULL]
  ELSE
    LET clampedX == JsClamp(x, Num(Px(CLAMP_MARGIN)),
                            Num(Px(g.viewW) - Px(CLAMP_MARGIN)))
        clampedWidth == Max(width.n, MIN_VISIBLE_WIDTH)
    IN  IF WouldOverlapExistingPlatformJs(g.platforms, clampedX, y, clampedWidth,
                                          PLATFORM_THICKNESS)
        THEN [g |-> g, value |-> NULL]
        ELSE
          LET id == g.stats.totalPlatforms + 1
              p == [NewPlatform(id, 0, 0, clampedWidth, FALSE, 0, RawOrigin)
                      EXCEPT !.x = clampedX, !.y = y,
                             !.body.x = JsAdd(clampedX, 0 - clampedWidth),
                             !.body.y = JsAdd(y, 0 - (PLATFORM_THICKNESS \div 2)),
                             !.platformData.originalX = x,
                             !.platformData.clampedX = clampedX]
              g1 == [g EXCEPT
                       !.sceneLights = @ \cup {Light(id, "outline")},
                       !.platforms = Append(@, p),
                       !.platformGroup = @ \cup {id},
                       !.stats.totalPlatforms = @ + 1]
          IN  [g |-> CoinStep(g1, p), value |-> id]

\* ------------------------------------------------ calculateNextPlatformPosition
\* The vertical gap, from the gapType draw r1 and the Between draw r2.
VerticalGapTooTall(r1, r2) ==
  Between(r2, VERTICAL_SPACING_MIN, VERTICAL_SPACING_MAX + VERTICAL_SPACING_MIN)
VerticalGap(r1, r2) ==
  IF RandomBelow(r1, 70)
  THEN Max(PLATFORM_THICKNESS + 20,
           Between(r2, VERTICAL_SPACING_MIN, VERTICAL_SPACING_MAX))
  ELSE Max(PLATFORM_THICKNESS + 20,
           Between(r2, STEPPING_STONE_MIN, STEPPING_STONE_MAX))

\* The horizontal offset in pixels before the minimum spacing is enforced, from
\* the patternChoice draw r3 and the Between draw r4.
PatternOffset(r3, r4, chunks, currentY) ==
  IF RandomBelow(r3, 50)
  THEN LET direction == IF SinPositive(40 * chunks + currentY) THEN 1 ELSE -1
       IN  direction * Between(r4, MIN_HORIZONTAL_GAP, (MAX_HORIZONTAL_GAP * 7) \div 10)
  ELSE IF RandomBelow(r3, 90)
  THEN Between(r4, -((MAX_HORIZONTAL_GAP * 8) \div 10), (MAX_HORIZONTAL_GAP * 8) \div 10)
  ELSE Between(r4, -((MIN_HORIZONTAL_GAP * 12) \div 10), (MIN_HORIZONTAL_GAP * 12) \div 10)

\* minSpacing in half-pixels: max(minHorizontalGap, w / 2 + maxWidth / 2 + 10)
MinSpacing(nextPlatformWidth) ==
  Max(Px(MIN_HORIZONTAL_GAP), nextPlatformWidth + PLATFORM_MAX_WIDTH + Px(10))

\* screenMargin, minX and maxX in half-pixels
ScreenMargin(nextPlatformWidth) == Max(Px(SCREEN_MARGIN), nextPlatformWidth + Px(10))
MinXAtMargin(nextPlatformWidth) == ScreenMargin(nextPlatformWidth)
MinX(nextPlatformWidth) == ScreenMargin(nextPlatformWidth) + nextPlatformWidth
MaxX(w, nextPlatformWidth) ==
  Px(w) - ScreenMargin(nextPlatformWidth) - nextPlatformWidth

\* Returns [x, y, rng, wallBounceDirection, clamped]: the position, the stream
\* after the four draws and the field wallBounceDirection as the call leaves it.
CalculateNextPlatformPosition(g, previousX, currentY, nextPlatformWidth) ==
  LET r1 == NextRand(g.rng)
      r2 == NextRand(r1)
      r3 == NextRand(r2)
      r4 == NextRand(r3)
      verticalGap == VerticalGap(r1, r2)
      minX == MinX(nextPlatformWidth)
      maxX == MaxX(g.viewW, nextPlatformWidth)
      offset0 == Px(PatternOffset(r3, r4, g.chunksGenerated, currentY))
      minSpacing == MinSpacing(nextPlatformWidth)
      horizontalOffset ==
        IF Abs(offset0) < minSpacing
        THEN (IF offset0 >= 0 THEN minSpacing ELSE -minSpacing)
        ELSE offset0
      nextX0 == previousX + horizontalOffset
      \* clamping sets the bias ...
      nextX1 == IF nextX0 < minX THEN minX ELSE IF nextX0 > maxX THEN maxX ELSE nextX0
      bounce1 == IF nextX0 < minX THEN 1
                 ELSE IF nextX0 > maxX THEN -1
                 ELSE g.wallBounceDirection
      \* ... and the same call applies and resets it
      nextX2 == IF bounce1 # 0 THEN nextX1 + bounce1 * Px(WALL_BOUNCE) ELSE nextX1
      bounce2 == IF bounce1 # 0 THEN 0 ELSE bounce1
  IN  [x |-> Clamp(nextX2, minX, maxX),
       y |-> currentY - verticalGap,
       rng |-> r4,
       wallBounceDirection |-> bounce2,
       \* which bound the first clamp hit (history only)
       clamped |-> IF nextX0 < minX THEN 1 ELSE IF nextX0 > maxX THEN -1 ELSE 0]

\* ------------------------------------------------------------- generateChunk
\* The loop body up to the createUnifiedPlatform call: the width draw, the
\* position, the light draw.  Returns the candidate and the generator before
\* the call (stream and wall-bounce field advanced).
ChunkCandidate(g, previousX, currentY) ==
  LET rw == NextRand(g.rng)
      platformWidth == Between(rw, PLATFORM_MIN_WIDTH, PLATFORM_MAX_WIDTH)
  IN  Val({ LET rl == NextRand(nextPosition.rng)
            IN  [x |-> nextPosition.x, y |-> nextPosition.y, width |-> platformWidth,
                 isLightEmitter |-> RandomBelow(rl, LIGHT_PLATFORM_CHANCE_PCT),
                 g |-> [g EXCEPT !.rng = rl,
                                 !.wallBounceDirection =
                                    nextPosition.wallBounceDirection]]
            : nextPosition \in
                {CalculateNextPlatformPosition([g EXCEPT !.rng = rw], previousX,
                                               currentY, platformWidth)} })

\* previousX and currentY after an iteration that produced candidate c with
\* result `created` of createUnifiedPlatform
NextPreviousX(c, created) == c.x
NextCurrentYBottomEdge(c, created) == c.y + PLATFORM_THICKNESS
NextCurrentY(c, created) == c.y

\* One iteration of the while loop per recursion; slot counts the iterations,
\* and the state returned records how many the loop made and, per iteration,
\* the previousX it started with, the candidate x and what
\* createUnifiedPlatform returned (history only).
RECURSIVE ChunkLoop(_, _, _, _, _)
ChunkLoop(g0, currentY0, previousX0, chunkEndY, slot) ==
  Val({ IF currentY > chunkEndY
        THEN Val({ Val({ ChunkLoop([created.g EXCEPT !.trail =
                                      Append(@, [previousX |-> previousX,
                                                 x |-> c.x,
                                                 value |-> created.value])],
                                   NextCurrentY(c, created),
                                   NextPreviousX(c, created), chunkEndY, slot + 1)
                         : created \in
                             {CreateUnifiedPlatform(c.g, c.x, c.y, c.width,
                                 c.isLightEmitter,
                                 [chunk |-> g.chunksGenerated + 1, slot |-> slot])} })
                   : c \in {ChunkCandidate(g, previousX, currentY)} })
        ELSE [g EXCEPT !.iterations = slot - 1]
        : g \in {g0}, currentY \in {currentY0}, previousX \in {previousX0} })

GenerateChunkStaleFrontier(g0) ==
  Val({ LET chunkStartY == g.nextChunkY
            chunkEndY == chunkStartY - CHUNK_HEIGHT
        IN  [ChunkLoop(g, chunkStartY, g.viewW, chunkEndY, 1)
               EXCEPT !.nextChunkY = chunkEndY,
                      !.chunksGenerated = @ + 1]
        : g \in {g0} })

GenerateChunk(g0) ==
  Val({ LET chunkStartY == g.nextChunkY
            chunkEndY == chunkStartY - CHUNK_HEIGHT
        IN  [ChunkLoop([g EXCEPT !.trail = <<>>], chunkStartY, g.viewW,
                       chunkEndY, 1)
               EXCEPT !.nextChunkY = chunkEndY,
                      !.chunksGenerated = @ + 1,
                      !.lastGeneratedY = chunkEndY]
        : g \in {g0} })

\* ------------------------------------------------------ construction sequence
\* Direct calls carry no origin; the construction sequence is chunk 0.
NoOrigin == [chunk |-> 0, slot |-> 0]
StartOrigin(slot) == [chunk |-> 0, slot |-> slot]

StartingWidthNarrow(w) == w - 2 * 40
\* fullWidth = cameras.main.width - 40
StartingWidth(w) == w - 40

\* createStartingPlatform: startX (the left edge, width / 2 - fullWidth / 2) is
\* what it hands to createUnifiedPlatform as x.
CreateStartingPlatform(g0) ==
  Val({ LET startY == g.viewH - 100
            fullWidth == StartingWidth(g.viewW)
            startX == g.viewW - fullWidth            \* half-pixels
        IN  [CreateUnifiedPlatform(g, startX, startY, fullWidth, FALSE,
                                  StartOrigin(1)).g
               EXCEPT !.lastGeneratedY = startY,
                      !.nextChunkY = startY - CHUNK_HEIGHT]
        : g \in {g0} })

\* The five fixed starter platforms: offsets from centerX and startY, width, light
StarterPlatformsCrowded ==
  << [dx |-> -120, dy |-> 10,  width |-> 160, light |-> FALSE],
     [dx |-> 100,  dy |-> 160, width |-> 140, light |-> FALSE],
     [dx |-> -80,  dy |-> 240, width |-> 180, light |-> TRUE],
     [dx |-> 90,   dy |-> 320, width |-> 150, light |-> FALSE],
     [dx |-> -110, dy |-> 400, width |-> 170, light |-> TRUE] >>

StarterPlatforms ==
  << [dx |-> -120, dy |-> 80,  width |-> 160, light |-> FALSE],
     [dx |-> 100,  dy |-> 160, width |-> 140, light |-> FALSE],
     [dx |-> -80,  dy |-> 240, width |-> 180, light |-> TRUE],
     [dx |-> 90,   dy |-> 320, width |-> 150, light |-> FALSE],
     [dx |-> -110, dy |-> 400, width |-> 170, light |-> TRUE] >>

RECURSIVE StarterLoop(_, _)
StarterLoop(g0, i) ==
  Val({ IF i > Len(StarterPlatforms) THEN g
        ELSE LET sp == StarterPlatforms[i]
                 startY == g.viewH - 100
                 centerX == g.viewW                  \* width / 2, in half-pixels
             IN  StarterLoop(CreateUnifiedPlatform(g, centerX + Px(sp.dx),
                                                   startY - sp.dy, sp.width,
                                                   sp.light, StartOrigin(i + 1)).g,
                             i + 1)
        : g \in {g0} })

CreateImmediateStarterPlatforms(g0) ==
  Val({ LET startY == g.viewH - 100
        IN  [g EXCEPT !.lastGeneratedY = startY - 400,
                      !.nextChunkY = startY - 500]
        : g \in {StarterLoop(g0, 1)} })

GenerateInitialChunks(g) ==
  GenerateChunk(GenerateChunk(GenerateChunk(
    CreateImmediateStarterPlatforms(
      CreateStartingPlatform(
        [g EXCEPT !.platforms = <<>>, !.lightEmitterPlatforms = <<>>])))))

\* The PlatformGenerator constructor for a w x h viewport and a random stream.
Constructor(w, h, seed) ==
  GenerateInitialChunks(
    [viewW |-> w, viewH |-> h, rng |-> SeedState(seed),
     platforms |-> <<>>, lightEmitterPlatforms |-> <<>>, platformGroup |-> {},
     sceneLights |-> {}, coins |-> <<>>,
     stats |-> [totalPlatforms |-> 0, lightEmitterPlatforms |-> 0],
     nextChunkY |-> 0, lastGeneratedY |-> h, chunksGenerated |-> 0,
     wallBounceDirection |-> 0, destroyCalls |-> <<>>, iterations |-> 0,
     trail |-> <<>>])

\* ------------------------------------------------------------- destruction
\* VoidSystem.getDestructionThreshold: destructionThreshold || voidY + offset
GetDestructionThreshold(stored, vy) ==
  IF Len(stored) > 0 /\ stored[1] # 0 THEN stored[1]
  ELSE vy + PLATFORM_DESTRUCTION_OFFSET

\* The lights destroyPlatform removes from the scene for platform p
RemovedLights(p) == {p.platformData.light, p.platformData.outlineLight}

SweepKeepsAbove(p, threshold) == p.y >= threshold
\* the filter predicate of destroyPlatformsBelowVoid: kept iff not (y > threshold)
SweepKeeps(p, threshold) == ~(p.y > threshold)

\* destroyPlatform on generator state g: both light handles the platform data
\* still holds are removed from the scene, the sprite leaves the physics group.
DestroyPlatform(g, p) ==
  [g EXCEPT !.sceneLights = @ \ RemovedLights(p),
            !.platformGroup = @ \ {p.id},
            !.destroyCalls = Append(@, p.id)]

RECURSIVE DestroyEach(_, _, _)
DestroyEach(g0, ps, i) ==
  IF i > Len(ps) THEN g0 ELSE DestroyEach(DestroyPlatform(g0, ps[i]), ps, i + 1)

DestroyPlatformsBelowVoidShiftsSurvivors(g, threshold) ==
  Val({ [DestroyEach(g, gone, 1) EXCEPT
           !.platforms =
              [i \in 1..Len(kept) |->
                 [kept[i] EXCEPT !.y = @ + 1, !.body.y = @ + 1]],
           !.lightEmitterPlatforms = SelectSeq(@, LAMBDA p : p.y <= threshold)]
        : gone \in {SelectSeq(g.platforms, LAMBDA p : ~SweepKeeps(p, threshold))},
          kept \in {SelectSeq(g.platforms, LAMBDA p : SweepKeeps(p, threshold))} })

\* The filter callback destroys each platform it drops, in array order.
DestroyPlatformsBelowVoidOn(g, threshold) ==
  Val({ [DestroyEach(g, gone, 1) EXCEPT
           !.platforms = SelectSeq(@, LAMBDA p : SweepKeeps(p, threshold)),
           !.lightEmitterPlatforms = SelectSeq(@, LAMBDA p : p.y <= threshold)]
        : gone \in {SelectSeq(g.platforms, LAMBDA p : ~SweepKeeps(p, threshold))} })

DestroyOnKeepsArrays(g) == DestroyEach(g, g.platforms, 1)

DestroyOnResetsCounter(g) ==
  Val({ [DestroyEach(g, ps, 1) EXCEPT !.platforms = <<>>,
                                      !.lightEmitterPlatforms = <<>>,
                                      !.chunksGenerated = 0]
        : ps \in {g.platforms} })
\* PlatformGenerator.destroy
DestroyOn(g) ==
  Val({ [DestroyEach(g, ps, 1) EXCEPT !.platforms = <<>>,
                                      !.lightEmitterPlatforms = <<>>]
        : ps \in {g.platforms} })

\* getStats()
GetStats ==
  [totalPlatforms |-> Len(platforms),
   lightEmitterPlatforms |-> Len(lightEmitterPlatforms),
   chunksGenerated |-> chunksGenerated,
   lastGeneratedY |-> lastGeneratedY]

\* ------------------------------------------------------------ state packing
Gen(seed) ==
  [viewW |-> viewW, viewH |-> viewH, rng |-> SeedState(seed),
   platforms |-> platforms, lightEmitterPlatforms |-> lightEmitterPlatforms,
   platformGroup |-> platformGroup, sceneLights |-> sceneLights, coins |-> coins,
   stats |-> stats, nextChunkY |-> nextChunkY, lastGeneratedY |-> lastGeneratedY,
   chunksGenerated |-> chunksGenerated, wallBounceDirection |-> wallBounceDirection,
   destroyCalls |-> destroyCalls, iterations |-> 0, trail |-> <<>>]

Commit(g) ==
  /\ platforms' = g.platforms
  /\ lightEmitterPlatforms' = g.lightEmitterPlatforms
  /\ platformGroup' = g.platformGroup
  /\ sceneLights' = g.sceneLights
  /\ coins' = g.coins
  /\ stats' = g.stats
  /\ nextChunkY' = g.nextChunkY
  /\ lastGeneratedY' = g.lastGeneratedY
  /\ chunksGenerated' = g.chunksGenerated
  /\ wallBounceDirection' = g.wallBounceDirection
  /\ destroyCalls' = g.destroyCalls

Ret(op, x, y, width, value) ==
  [op |-> op, x |-> x, y |-> y, width |-> width, value |-> value]

\* --------------------------------------------------------------------- Init
Viewports ==
  { <<GAME_WIDTH + 128 * i, GAME_HEIGHT + 96 * j>> :
      i \in -MaxViewportStep..MaxViewportStep, j \in -MaxViewportStep..MaxViewportStep }

InitWith(vps) ==
  \E vp \in vps, seed \in Seeds :
    \E g \in {Constructor(vp[1], vp[2], seed)} :
        /\ viewW = vp[1]
        /\ viewH = vp[2]
        /\ platforms = g.platforms
        /\ lightEmitterPlatforms = g.lightEmitterPlatforms
        /\ platformGroup = g.platformGroup
        /\ sceneLights = g.sceneLights
        /\ coins = g.coins
        /\ stats = g.stats
        /\ nextChunkY = g.nextChunkY
        /\ lastGeneratedY = g.lastGeneratedY
        /\ chunksGenerated = g.chunksGenerated
        /\ wallBounceDirection = g.wallBounceDirection
        \* VoidSystem constructor
        /\ voidY = vp[2] + 100
        /\ currentSpeed = 10 * VOID_RISE_SPEED
        /\ destructionThreshold = <<>>
        /\ destroyCalls = <<>>
        /\ manualCalls = 0
        /\ voidSteps = 0
        /\ ret = Ret("constructor", 0, 0, 0, 0)

Init == InitWith({<<GAME_WIDTH, GAME_HEIGHT>>})

\* ------------------------------------------------------------------ actions
\* Viewport positions an update tick is tried with: just inside the trigger
\* line and exactly on it.
CameraYs ==
  {lastGeneratedY + SAFE_SPAWN_DISTANCE - 1, lastGeneratedY + SAFE_SPAWN_DISTANCE}

\* checkForNewChunkGeneration(cameraY)
NeedsChunkInclusive(cameraY, lastY) == cameraY <= lastY + SAFE_SPAWN_DISTANCE
NeedsChunk(cameraY, lastY) == cameraY < lastY + SAFE_SPAWN_DISTANCE

\* update(cameraY)
UpdateWithin(cameraY, seed, cap) ==
    /\ IF NeedsChunk(cameraY, lastGeneratedY)
       THEN /\ chunksGenerated < cap
            /\ \E g \in {GenerateChunk(Gen(seed))} : Commit(g)
            /\ ret' = Ret("update", 0, cameraY, 0, 1)
       ELSE /\ UNCHANGED <<platforms, lightEmitterPlatforms, platformGroup,
                           sceneLights, coins, stats, nextChunkY, lastGeneratedY,
                           chunksGenerated, wallBounceDirection, destroyCalls>>
            /\ ret' = Ret("update", 0, cameraY, 0, 0)
    /\ UNCHANGED <<viewW, viewH, voidY, currentSpeed, destructionThreshold,
                   manualCalls, voidSteps>>

UpdateOn(cameraY, seed) == UpdateWithin(cameraY, seed, MaxChunks)

Update == \E cameraY \in CameraYs, seed \in Seeds : UpdateOn(cameraY, seed)

\* update(cameraY) after the viewport jumped: one and three chunks past the
\* frontier, and three chunks short of it.
FarCameraYs ==
  {lastGeneratedY - CHUNK_HEIGHT, lastGeneratedY - 3 * CHUNK_HEIGHT,
   lastGeneratedY + 3 * CHUNK_HEIGHT}
UpdateFar == \E cameraY \in FarCameraYs, seed \in Seeds : UpdateOn(cameraY, seed)

\* Candidates for a direct createUnifiedPlatform call: the exact rectangle of
\* the last live platform q, one partly overlapping q, and a rectangle in the
\* span of the next chunk.
Around(q) ==
  { [x |-> q.x, y |-> q.y, width |-> q.displayWidth],
    [x |-> q.x + Px(10), y |-> q.y + 10, width |-> PLATFORM_MIN_WIDTH] }

Candidates ==
  UNION { Around(platforms[i]) : i \in {Len(platforms)} \cap DOMAIN platforms }
    \cup { [x |-> viewW, y |-> nextChunkY - 100, width |-> PLATFORM_MAX_WIDTH] }

CreateUnifiedPlatformAmong(cs) ==
  \E c \in cs, hasLight \in BOOLEAN, seed \in Seeds :
    \E created \in {CreateUnifiedPlatform(Gen(seed), c.x, c.y, c.width, hasLight,
                                          NoOrigin)} :
        /\ manualCalls < MaxManual
        /\ manualCalls' = manualCalls + 1
        /\ Commit(created.g)
        /\ ret' = Ret("createUnifiedPlatform", c.x, c.y, c.width,
                      created.value)
        /\ UNCHANGED <<viewW, viewH, voidY, currentSpeed, destructionThreshold,
                       voidSteps>>

CreateUnifiedPlatformCall == CreateUnifiedPlatformAmong(Candidates)

\* createUnifiedPlatform called off the edges of the screen and with widths
\* below the minimum visible width
EdgeCandidates ==
  { [x |-> x, y |-> nextChunkY - 100, width |-> width] :
      x \in {Px(0 - CLAMP_MARGIN), Px(viewW + CLAMP_MARGIN)},
      width \in {STEPPING_STONE_MIN, PLATFORM_MIN_WIDTH} }
CreateUnifiedPlatformEdgeCall == CreateUnifiedPlatformAmong(EdgeCandidates)

\* update(cameraY) with a cameraY that may be missing: the comparison of
\* checkForNewChunkGeneration on JS values
NeedsChunkJsUnlessAbove(cameraY, lastY) ==
  ~JsLessEq(Num(lastY + SAFE_SPAWN_DISTANCE), ToNumber(cameraY))
NeedsChunkJs(cameraY, lastY) ==
  JsLess(ToNumber(cameraY), Num(lastY + SAFE_SPAWN_DISTANCE))

JsCameraYs == {Undefined, Null, NaN, Num(lastGeneratedY + SAFE_SPAWN_DISTANCE - 1)}

UpdateJs ==
  \E cameraY \in JsCameraYs, seed \in Seeds :
    /\ IF NeedsChunkJs(cameraY, lastGeneratedY)
       THEN /\ chunksGenerated < MaxChunks
            /\ \E g \in {GenerateChunk(Gen(seed))} : Commit(g)
            /\ ret' = Ret("update", 0, cameraY, 0, 1)
       ELSE /\ UNCHANGED <<platforms, lightEmitterPlatforms, platformGroup,
                           sceneLights, coins, stats, nextChunkY, lastGeneratedY,
                           chunksGenerated, wallBounceDirection, destroyCalls>>
            /\ ret' = Ret("update", 0, cameraY, 0, 0)
    /\ UNCHANGED <<viewW, viewH, voidY, currentSpeed, destructionThreshold,
                   manualCalls, voidSteps>>

\* destroyPlatformsBelowVoid() when voidSystem.getDestructionThreshold()
\* returns the JS value threshold; ret.y records it
\* (with a NaN threshold `y > threshold` drops no platform, while the second
\* filter, `y <= threshold`, keeps no entry of lightEmitterPlatforms)
JsThresholds == {NaN, Undefined, Num(viewH - 150)}

DestroyPlatformsBelowVoidJsOn(g, threshold) ==
  Val({ [DestroyEach(g, gone, 1) EXCEPT
           !.platforms =
              SelectSeq(@, LAMBDA p : ~JsGreater(Num(p.y), ToNumber(threshold))),
           !.lightEmitterPlatforms =
              SelectSeq(@, LAMBDA p : JsLessEq(Num(p.y), ToNumber(threshold)))]
        : gone \in {SelectSeq(g.platforms,
                              LAMBDA p : JsGreater(Num(p.y), ToNumber(threshold)))} })

DestroyPlatformsBelowVoidJs ==
  \E threshold \in JsThresholds :
    /\ \E g \in {DestroyPlatformsBelowVoidJsOn(Gen(0), threshold)} : Commit(g)
    /\ ret' = Ret("destroyPlatformsBelowVoid", 0, threshold, 0, 0)
    /\ UNCHANGED <<viewW, viewH, voidY, currentSpeed, destructionThreshold,
                   manualCalls, voidSteps>>

\* createUnifiedPlatform called next to live platform q: sharing its right
\* edge, its top edge, one corner, and one pixel inside it.
Touching(q) ==
  { [x |-> q.x + q.displayWidth + PLATFORM_MIN_WIDTH, y |-> q.y,
     width |-> PLATFORM_MIN_WIDTH],
    [x |-> q.x, y |-> q.y - PLATFORM_THICKNESS, width |-> q.displayWidth],
    [x |-> q.x - q.displayWidth - PLATFORM_MIN_WIDTH, y |-> q.y - PLATFORM_THICKNESS,
     width |-> PLATFORM_MIN_WIDTH],
    [x |-> q.x, y |-> q.y - PLATFORM_THICKNESS + 1, width |-> q.displayWidth] }
TouchCandidates ==
  UNION { Touching(platforms[i]) : i \in {Len(platforms)} \cap DOMAIN platforms }
CreateUnifiedPlatformTouchCall == CreateUnifiedPlatformAmong(TouchCandidates)

\* createUnifiedPlatform called with arguments that may not be numbers
JsXs == {Undefined, NaN, PosInfinity, NegInfinity, Num(viewW)}
JsYs == {Undefined, NaN, PosInfinity, NegInfinity, Num(nextChunkY - 100)}
JsWidths ==
  {Undefined, NaN, Num(0), Num(0 - PLATFORM_MIN_WIDTH), Num(PLATFORM_MAX_WIDTH)}

CreateUnifiedPlatformJsCall ==
  \E x \in JsXs, y \in JsYs, width \in JsWidths, seed \in Seeds :
    \E created \in {CreateUnifiedPlatformJs(Gen(seed), x, y, width)} :
        /\ manualCalls < MaxManual
        /\ manualCalls' = manualCalls + 1
        /\ Commit(created.g)
        /\ ret' = Ret("createUnifiedPlatform", x, y, width, created.value)
        /\ UNCHANGED <<viewW, viewH, voidY, currentSpeed, destructionThreshold,
                       voidSteps>>

\* VoidSystem.updateVoidMovement(deltaTime), deltaTime in seconds
DeltaTimes == {50}
UpdateVoidMovement ==
  \E deltaTime \in DeltaTimes :
    /\ voidSteps < MaxVoidSteps
    /\ currentSpeed' = currentSpeed + deltaTime        \* + acceleration (0.1) * dt
    /\ voidY' = voidY - (currentSpeed' * deltaTime) \div 10
    /\ voidSteps' = voidSteps + 1
    /\ ret' = Ret("updateVoidMovement", 0, deltaTime, 0, 0)
    /\ UNCHANGED <<viewW, viewH, platforms, lightEmitterPlatforms, platformGroup,
                   sceneLights, coins, stats, nextChunkY, lastGeneratedY,
                   chunksGenerated, wallBounceDirection, destructionThreshold,
                   destroyCalls, manualCalls>>

\* VoidSystem.checkPlatformDestruction()
CheckPlatformDestruction ==
  /\ destructionThreshold' = <<voidY + PLATFORM_DESTRUCTION_OFFSET>>
  /\ ret' = Ret("checkPlatformDestruction", 0, 0, 0, 0)
  /\ UNCHANGED <<viewW, viewH, platforms, lightEmitterPlatforms, platformGroup,
                 sceneLights, coins, stats, nextChunkY, lastGeneratedY,
                 chunksGenerated, wallBounceDirection, voidY, currentSpeed,
                 destroyCalls, manualCalls, voidSteps>>

\* destroyPlatformsBelowVoid(); ret.y records the threshold the sweep used
DestroyPlatformsBelowVoid ==
  LET threshold == GetDestructionThreshold(destructionThreshold, voidY)
  IN  /\ \E g \in {DestroyPlatformsBelowVoidOn(Gen(0), threshold)} : Commit(g)
      /\ ret' = Ret("destroyPlatformsBelowVoid", 0, threshold, 0, 0)
      /\ UNCHANGED <<viewW, viewH, voidY, currentSpeed, destructionThreshold,
                     manualCalls, voidSteps>>

\* destroy()
Destroy ==
  /\ \E g \in {DestroyOn(Gen(0))} : Commit(g)
  /\ ret' = Ret("destroy", 0, 0, 0, 0)
  /\ UNCHANGED <<viewW, viewH, voidY, currentSpeed, destructionThreshold,
                 manualCalls, voidSteps>>

\* calculateNextPlatformPosition(previousX, currentY, nextPlatformWidth) called
\* on the generator as it stands; ret records the arguments and the result.
Widths ==
  { PLATFORM_MIN_WIDTH
      + ((PLATFORM_MAX_WIDTH - PLATFORM_MIN_WIDTH) * k) \div MaxWidthIndex
    : k \in 0..MaxWidthIndex }
Streams == { SeedState(k) : k \in 0..MaxStream }
PreviousXs == {Px(GAME_WIDTH \div 2)}
CurrentYs == {GAME_HEIGHT - 100}

CalculateNextPlatformPositionCall ==
  \E previousX \in PreviousXs, currentY \in CurrentYs, width \in Widths,
     stream \in Streams :
    \E pos \in {CalculateNextPlatformPosition([Gen(0) EXCEPT !.rng = stream],
                                              previousX, currentY, width)} :
        /\ wallBounceDirection' = pos.wallBounceDirection
        /\ ret' = [op |-> "calculateNextPlatformPosition",
                   previousX |-> previousX, currentY |-> currentY,
                   width |-> width, x |-> pos.x, y |-> pos.y]
        /\ UNCHANGED <<viewW, viewH, platforms, lightEmitterPlatforms,
                       platformGroup, sceneLights, coins, stats, nextChunkY,
                       lastGeneratedY, chunksGenerated, voidY, currentSpeed,
                       destructionThreshold, destroyCalls, manualCalls,
                       voidSteps>>

\* calculateNextPlatformPosition called again from the x it returned, as the
\* loop of generateChunk does; ret records the width, the x returned and
\* which bound the call hit.
ChainedPreviousXs ==
  IF ret.op = "calculateNextPlatformPosition" THEN {ret.x} ELSE PreviousXs

ChainStreams == { SeedState(k) : k \in 0..(8 * MaxSeed + 7) }

CalculateNextPlatformPositionChain ==
  \E previousX \in ChainedPreviousXs, currentY \in CurrentYs, width \in Widths,
     stream \in ChainStreams :
    \E pos \in {CalculateNextPlatformPosition(
                   [Gen(0) EXCEPT !.rng = stream,
                                  !.wallBounceDirection = wallBounceDirection],
                   previousX, currentY, width)} :
        /\ wallBounceDirection' = pos.wallBounceDirection
        /\ ret' = [op |-> "calculateNextPlatformPosition",
                   width |-> width, x |-> pos.x, clamped |-> pos.clamped]
        /\ UNCHANGED <<viewW, viewH, platforms, lightEmitterPlatforms,
                       platformGroup, sceneLights, coins, stats, nextChunkY,
                       lastGeneratedY, chunksGenerated, voidY, currentSpeed,
                       destructionThreshold, destroyCalls, manualCalls,
                       voidSteps>>

\* The operations of the generator and the void.  calculateNextPlatformPosition
\* is the helper of generateChunk; SpecCalc below runs it on its own.
Next ==
  \/ Update
  \/ CreateUnifiedPlatformCall
  \/ UpdateVoidMovement
  \/ CheckPlatformDestruction
  \/ DestroyPlatformsBelowVoid
  \/ Destroy

Spec == Init /\ [][Next]_vars

\* Generation, direct commits, the rising void and destruction sweeps
NextWorld ==
  \/ Update
  \/ CreateUnifiedPlatformCall
  \/ UpdateVoidMovement
  \/ DestroyPlatformsBelowVoid
SpecWorld == Init /\ [][NextWorld]_vars

\* Every operation of the generator, and the rising void
NextOps ==
  \/ Update
  \/ CreateUnifiedPlatformCall
  \/ UpdateVoidMovement
  \/ DestroyPlatformsBelowVoid
  \/ Destroy
SpecOps == Init /\ [][NextOps]_vars

\* Generation, the void and destruction
NextLife ==
  \/ Update
  \/ UpdateVoidMovement
  \/ CheckPlatformDestruction
  \/ DestroyPlatformsBelowVoid
  \/ Destroy
SpecLife == Init /\ [][NextLife]_vars

\* The position calculation alone, on the constructed generator
SpecCalc == Init /\ [][CalculateNextPlatformPositionCall]_vars

\* Update ticks alone, for a range of viewports and viewport positions
SpecTick == InitWith(Viewports) /\ [][Update \/ UpdateFar]_vars

\* Construction for a range of viewports, then generation
SpecViewport == InitWith(Viewports) /\ [][Update]_vars

\* Generation and direct calls at the edges
SpecSprite == Init /\ [][Update \/ CreateUnifiedPlatformEdgeCall]_vars

\* calculateNextPlatformPosition, call after call
SpecBounce == Init /\ [][CalculateNextPlatformPositionChain]_vars

\* Generation and direct calls edge to edge with live platforms
SpecTouch == Init /\ [][Update \/ CreateUnifiedPlatformTouchCall]_vars

\* The viewport held still: the first tick picks cameraY (on the trigger
\* line, one chunk short of it, two chunks short of it), later ticks repeat
\* the cameraY of the tick before (ret.y).
FirstCameraYs ==
  {lastGeneratedY + SAFE_SPAWN_DISTANCE, lastGeneratedY + SAFE_SPAWN_DISTANCE - 1,
   lastGeneratedY - 1}
HeldCameraYs == IF ret.op = "update" THEN {ret.y} ELSE FirstCameraYs
UpdateHeld ==
  \E cameraY \in HeldCameraYs, seed \in Seeds :
    UpdateWithin(cameraY, seed, MaxRunChunks)

\* The viewport rising by at most one CHUNK_HEIGHT from a tick that left
\* generation ahead of it.
RisenCameraYs ==
  {ret.y - CHUNK_HEIGHT, ret.y - CHUNK_HEIGHT \div 2, ret.y - CHUNK_HEIGHT \div 4}
UpdateRise ==
  /\ ret.op = "update"
  /\ ~NeedsChunk(ret.y, lastGeneratedY)
  /\ \E cameraY \in RisenCameraYs, seed \in Seeds :
        UpdateWithin(cameraY, seed, MaxRunChunks)

\* Ticks keep coming while the scene runs.
SpecPace == Init /\ [][UpdateHeld \/ UpdateRise]_vars /\ WF_vars(UpdateHeld)

\* A longer climb: update ticks only, up to MaxRunChunks chunks
UpdateRun ==
  \E cameraY \in CameraYs, seed \in Seeds : UpdateWithin(cameraY, seed, MaxRunChunks)
SpecRun == InitWith(Viewports) /\ [][UpdateRun]_vars

\* Ticks and sweeps whose cameraY or threshold may be missing
SpecMissing == InitWith(Viewports) /\ [][UpdateJs \/ DestroyPlatformsBelowVoidJs]_vars

\* createUnifiedPlatform alone, over arguments of any JS kind
SpecJs == Init /\ [][CreateUnifiedPlatformJsCall]_vars

\* ======================================================================
\* Properties
\* ======================================================================

\* The axis-aligned boxes of two platforms, centre +- (width / 2,
\* PLATFORM_THICKNESS / 2), intersect strictly.
AABBIntersect(p, q) ==
  /\ p.x - p.displayWidth < q.x + q.displayWidth
  /\ p.x + p.displayWidth > q.x - q.displayWidth
  /\ 2 * p.y - PLATFORM_THICKNESS < 2 * q.y + PLATFORM_THICKNESS
  /\ 2 * p.y + PLATFORM_THICKNESS > 2 * q.y - PLATFORM_THICKNESS

\* C1: in every state reachable by update, generateChunk, createUnifiedPlatform
\* and destroyPlatformsBelowVoid calls, no two distinct live platforms have
\* strictly intersecting boxes.
C1_NoOverlap ==
  \A i, j \in DOMAIN platforms :
    i # j => ~AABBIntersect(platforms[i], platforms[j])

\* C1 witness: a chunk generated by update() has committed a platform, a
\* later direct createUnifiedPlatform call was rejected for overlap, and the
\* previous chunk's last platform lies past the chunk end the next one
\* started from.
C1_Witness ==
  /\ ret.op = "createUnifiedPlatform" /\ ret.value = NULL
  /\ chunksGenerated > 3
  /\ \E i, j \in DOMAIN platforms :
        /\ platforms[i].chunk = chunksGenerated - 1
        /\ platforms[j].chunk = chunksGenerated
        /\ platforms[i].y <= nextChunkY + CHUNK_HEIGHT
\* Platforms committed by the construction sequence or by generateChunk
Generated(p) == p.slot > 0

\* p and q are live, q is the next generated commit after p
ConsecutiveCommits(p, q) ==
  /\ Generated(p) /\ Generated(q) /\ p.id < q.id
  /\ \A k \in DOMAIN platforms :
        Generated(platforms[k]) =>
          ~(p.id < platforms[k].id /\ platforms[k].id < q.id)

\* C2: as long as nothing has been destroyed, every platform committed right
\* after another in generation order (starting platform, starters, chunks,
\* chunk boundaries, rejected slots in between) is at most VERTICAL_SPACING_MAX
\* above it and at most MAX_HORIZONTAL_GAP to its side.
C2_WholeLevelReachable ==
  Len(platforms) = stats.totalPlatforms =>
    \A i, j \in DOMAIN platforms :
      ConsecutiveCommits(platforms[i], platforms[j]) =>
        /\ platforms[i].y - platforms[j].y <= VERTICAL_SPACING_MAX
        /\ Abs(platforms[j].x - platforms[i].x) <= Px(MAX_HORIZONTAL_GAP)
\* The rectangle a createUnifiedPlatform call was handed, as a box
CandidateBox(r) == [x |-> r.x, y |-> r.y, displayWidth |-> r.width]

\* C3: a createUnifiedPlatform call whose candidate box overlaps a live
\* platform returns null and leaves platforms, lightEmitterPlatforms, the
\* physics group, the scene's lights, the coins and the stats as they were.
C3_RejectionSafety ==
  [][ ( /\ ret'.op = "createUnifiedPlatform"
        /\ manualCalls' = manualCalls + 1
        /\ \E i \in DOMAIN platforms :
              AABBIntersect(CandidateBox(ret'), platforms[i]) )
      => ( /\ ret'.value = NULL
           /\ UNCHANGED <<platforms, lightEmitterPlatforms, platformGroup,
                          sceneLights, coins, stats>> ) ]_vars

\* C3 witness: a call with exactly the rectangle of a live platform was
\* rejected.
C3_Witness ==
  /\ ret.op = "createUnifiedPlatform" /\ ret.value = NULL
  /\ \E i \in DOMAIN platforms :
        /\ platforms[i].x = ret.x /\ platforms[i].y = ret.y
        /\ platforms[i].displayWidth = ret.width
\* p and q were committed one after the other by one generateChunk call
ConsecutiveInChunk(p, q) ==
  /\ p.chunk > 0 /\ p.chunk = q.chunk
  /\ ConsecutiveCommits(p, q)

\* C4: as long as nothing has been destroyed, two platforms committed one
\* after the other by one generateChunk call are VERTICAL_SPACING_MIN to
\* VERTICAL_SPACING_MAX or 40 to 55 apart vertically, also across a rejected
\* candidate.
C4_VerticalGapInChunk ==
  Len(platforms) = stats.totalPlatforms =>
    \A i, j \in DOMAIN platforms :
      ConsecutiveInChunk(platforms[i], platforms[j]) =>
        \/ platforms[i].y - platforms[j].y
              \in VERTICAL_SPACING_MIN..VERTICAL_SPACING_MAX
        \/ platforms[i].y - platforms[j].y
              \in STEPPING_STONE_MIN..STEPPING_STONE_MAX

\* C5: as long as nothing has been destroyed, the centres of two platforms
\* committed one after the other by one generateChunk call are
\* MIN_HORIZONTAL_GAP to MAX_HORIZONTAL_GAP apart horizontally.
C5_HorizontalGapInChunk ==
  Len(platforms) = stats.totalPlatforms =>
    \A i, j \in DOMAIN platforms :
      ConsecutiveInChunk(platforms[i], platforms[j]) =>
        Abs(platforms[j].x - platforms[i].x)
          \in Px(MIN_HORIZONTAL_GAP)..Px(MAX_HORIZONTAL_GAP)
\* C6: for every viewport and random stream the first committed platform is
\* viewW - 40 wide, centred at y = viewH - 100, not a light emitter and not in
\* lightEmitterPlatforms.
C6_StartingPlatformDeterminism ==
  /\ Len(platforms) > 0
  /\ platforms[1].id = 1
  /\ platforms[1].displayWidth = viewW - 40
  /\ platforms[1].body.width = viewW - 40
  /\ platforms[1].y = viewH - 100
  /\ ~platforms[1].platformData.isLightEmitter
  /\ platforms[1].platformData.light = NoLight
  /\ \A k \in DOMAIN lightEmitterPlatforms : lightEmitterPlatforms[k].id # 1

\* C6 witness: construction on a viewport other than the shipped one, with
\* light emitters among the other platforms.
C6_Witness ==
  /\ viewW # GAME_WIDTH /\ viewH # GAME_HEIGHT
  /\ ret.op = "constructor"
  /\ Len(platforms) > 1
  /\ Len(lightEmitterPlatforms) > 0
\* C7: on the 1024 x 768 viewport the starting platform, while live, is
\* centred at (512, 668), 984 wide, and spans x from 20 to 1004.
C7_StartingPlatformPosition ==
  (viewW = 1024 /\ viewH = 768) =>
    \A i \in DOMAIN platforms :
      platforms[i].id = 1 =>
        /\ platforms[i].x = Px(512)
        /\ platforms[i].y = 668
        /\ platforms[i].displayWidth = 984
        /\ platforms[i].body.x = Px(20)
        /\ platforms[i].body.x + Px(platforms[i].body.width) = Px(1004)
\* The result of a calculateNextPlatformPosition(512, 668, width) call on the
\* 1024-wide viewport
C8_Case ==
  /\ ret.op = "calculateNextPlatformPosition"
  /\ viewW = 1024 /\ ret.previousX = Px(512) /\ ret.currentY = 668
  /\ ret.width \in PLATFORM_MIN_WIDTH..PLATFORM_MAX_WIDTH

\* x lies in [60 + width / 2, 1024 - 60 - width / 2] (half-pixels)
C8_XInside ==
  /\ ret.x >= Px(60) + ret.width
  /\ ret.x <= Px(1024) - Px(60) - ret.width

Ids(ps) == { ps[i].id : i \in DOMAIN ps }
IdsBelow(ps, t) == { ps[i].id : i \in { k \in DOMAIN ps : ps[k].y > t } }

\* C9: a destroyPlatformsBelowVoid sweep with threshold T (ret.y) leaves no
\* platform with y > T in platforms or lightEmitterPlatforms, keeps every
\* platform with y <= T, calls destroyPlatform exactly once on each platform it
\* removes and on no other; a sweep that follows a sweep with the same
\* threshold removes nothing and calls destroyPlatform on nothing.
C9_MonotonicDestruction ==
  [][ ret'.op = "destroyPlatformsBelowVoid" =>
        LET T == ret'.y
            removed == IdsBelow(platforms, T)
            calls == SubSeq(destroyCalls', Len(destroyCalls) + 1,
                            Len(destroyCalls'))
        IN  /\ \A i \in DOMAIN platforms' : platforms'[i].y <= T
            /\ \A i \in DOMAIN lightEmitterPlatforms' :
                  lightEmitterPlatforms'[i].y <= T
            /\ \A i \in DOMAIN platforms :
                  platforms[i].y <= T =>
                    \E j \in DOMAIN platforms' : platforms'[j] = platforms[i]
            /\ \A i \in DOMAIN lightEmitterPlatforms :
                  lightEmitterPlatforms[i].y <= T =>
                    \E j \in DOMAIN lightEmitterPlatforms' :
                      lightEmitterPlatforms'[j] = lightEmitterPlatforms[i]
            /\ Len(destroyCalls') >= Len(destroyCalls)
            /\ SubSeq(destroyCalls', 1, Len(destroyCalls)) = destroyCalls
            /\ { calls[k] : k \in DOMAIN calls } = removed
            /\ Len(calls) = Cardinality(removed)
            /\ (ret.op = "destroyPlatformsBelowVoid" /\ ret.y = T) =>
                  /\ platforms' = platforms
                  /\ lightEmitterPlatforms' = lightEmitterPlatforms
                  /\ destroyCalls' = destroyCalls ]_vars

\* C9 witness: a sweep has removed some platforms, a light emitter among
\* them, and kept others.
C9_Witness ==
  /\ ret.op = "destroyPlatformsBelowVoid"
  /\ Len(platforms) > 0
  /\ Len(destroyCalls) > 0
  /\ Len(platforms) + Len(destroyCalls) = stats.totalPlatforms
  /\ Len(lightEmitterPlatforms) < stats.lightEmitterPlatforms
  /\ \A i \in DOMAIN platforms : platforms[i].y <= ret.y
\* C10: every light registered with the scene for a platform (outline or
\* emitter) and every coin placed on a platform, with its light, belongs to
\* a platform that is still live: destruction has released the rest.
C10_DecorationsReleased ==
  /\ \A l \in sceneLights : l.owner \in Ids(platforms)
  /\ \A k \in DOMAIN coins : coins[k].platform \in Ids(platforms)
\* C11: an update(cameraY) tick runs generateChunk exactly once when
\* cameraY < lastGeneratedY + SAFE_SPAWN_DISTANCE (one more chunk, the cursor
\* one CHUNK_HEIGHT further) and not at all otherwise, however far the
\* viewport is past the frontier.
C11_OneChunkPerTick ==
  [][ ret'.op = "update" =>
        IF ret'.y < lastGeneratedY + SAFE_SPAWN_DISTANCE
        THEN /\ chunksGenerated' = chunksGenerated + 1
             /\ nextChunkY' = nextChunkY - CHUNK_HEIGHT
             /\ lastGeneratedY' = nextChunkY'
             /\ ret'.value = 1
        ELSE UNCHANGED <<chunksGenerated, nextChunkY, lastGeneratedY, platforms,
                         stats>> ]_vars

\* C11 witness: a tick with the viewport three chunks past the frontier
\* generated a chunk.
C11_Witness ==
  /\ ret.op = "update" /\ ret.value = 1
  /\ ret.y = lastGeneratedY - 2 * CHUNK_HEIGHT
  /\ chunksGenerated = 4
\* C12: chunksGenerated, which getStats reports, equals the number of
\* generateChunk calls made (each moves nextChunkY by one CHUNK_HEIGHT from
\* where the starters left it; 3 are made by construction): it rises by one
\* in every tick that generates and no other operation changes it.
C12_BoundedGrowthCounter ==
  /\ chunksGenerated = 3
  /\ [](GetStats.chunksGenerated * CHUNK_HEIGHT = (viewH - 600) - nextChunkY)
  /\ [][ IF ret'.op = "update" /\ ret'.value = 1
         THEN chunksGenerated' = chunksGenerated + 1
         ELSE chunksGenerated' = chunksGenerated ]_vars

\* C12 witness: after a sweep and a teardown, a tick generated the fourth
\* chunk, with a rejected candidate in it.
C12_Witness ==
  /\ ret.op = "update" /\ ret.value = 1
  /\ GetStats.chunksGenerated = 4
  /\ Len(destroyCalls) > 0
  /\ \E i \in DOMAIN platforms :
        /\ platforms[i].chunk = 4 /\ platforms[i].slot > 1
        /\ \A j \in DOMAIN platforms :
              ~(platforms[j].chunk = 4
                /\ platforms[j].slot = platforms[i].slot - 1)
\* C13: destroy() calls destroyPlatform on every live platform exactly once, in
\* array order, and leaves platforms and lightEmitterPlatforms empty; a second
\* destroy() from the state it leaves releases nothing and changes nothing.
C13_DestroyIdempotent ==
  [][ ret'.op = "destroy" =>
        /\ Cardinality(Ids(platforms)) = Len(platforms)
        /\ destroyCalls' =
             destroyCalls \o [i \in 1..Len(platforms) |-> platforms[i].id]
        /\ platforms' = <<>>
        /\ lightEmitterPlatforms' = <<>>
        /\ (DestroyOn(Gen(0)) = Gen(0))' ]_vars

\* C13 witness: destroy() has released a level that held a fourth chunk.
C13_Witness ==
  /\ ret.op = "destroy"
  /\ chunksGenerated = 4
  /\ platforms = <<>>
  /\ Len(destroyCalls) > 40
  /\ voidSteps = 0
\* C14: createUnifiedPlatform called with a non-finite coordinate (undefined,
\* NaN, +Infinity or -Infinity for x or y) or with a missing or non-positive
\* width returns null and commits nothing.
C14_MissingGeometryFailsClosed ==
  [][ ( /\ ret'.op = "createUnifiedPlatform"
        /\ \/ ~IsFinite(ret'.x)
           \/ ~IsFinite(ret'.y)
           \/ ~IsFinite(ret'.width)
           \/ ret'.width.n <= 0 )
      => /\ ret'.value = NULL
         /\ UNCHANGED <<platforms, lightEmitterPlatforms, platformGroup,
                        sceneLights, coins, stats>> ]_vars
\* C15: the number of live platforms never exceeds maxActivePlatforms, after
\* construction and after any number of update ticks.
C15_ActivePlatformCap == Len(platforms) <= maxActivePlatforms
\* C16: for every committed platform the physics body rectangle equals the
\* visual rectangle (x - displayWidth/2, y - displayHeight/2, displayWidth,
\* displayHeight), with width the clamped width and height PLATFORM_THICKNESS.
C16_BodyMatchesSprite ==
  /\ \A i \in DOMAIN platforms :
        LET p == platforms[i]
        IN  /\ p.body.x = p.x - p.displayWidth        \* half-pixels
            /\ 2 * p.body.y = 2 * p.y - p.displayHeight
            /\ p.body.width = p.displayWidth
            /\ p.body.height = p.displayHeight
            /\ p.displayHeight = PLATFORM_THICKNESS
            /\ p.displayWidth >= MIN_VISIBLE_WIDTH
            /\ p.displayWidth = p.platformData.width
  /\ (ret.op = "createUnifiedPlatform" /\ ret.value # NULL) =>
        \E i \in DOMAIN platforms :
          /\ platforms[i].id = ret.value
          /\ platforms[i].displayWidth =
               (IF ret.width < MIN_VISIBLE_WIDTH THEN MIN_VISIBLE_WIDTH ELSE ret.width)

\* C16 witness: a direct call left of the screen with a width below the
\* minimum committed a platform, clamped in x and in width, next to a fourth
\* generated chunk.
C16_Witness ==
  /\ ret.op = "createUnifiedPlatform" /\ ret.value # NULL
  /\ ret.width < MIN_VISIBLE_WIDTH /\ ret.x < 0
  /\ chunksGenerated = 4
  /\ \E i \in DOMAIN platforms :
        /\ platforms[i].id = ret.value
        /\ platforms[i].x = Px(CLAMP_MARGIN)
        /\ platforms[i].body.x = Px(CLAMP_MARGIN) - MIN_VISIBLE_WIDTH
\* C17: every update tick evaluates the destruction sweep after generation,
\* so when a tick returns no live platform lies beyond the destruction
\* threshold.
C17_SweepProgress ==
  [][ ret'.op = "update" =>
        \A i \in DOMAIN platforms' :
          ~(platforms'[i].y > GetDestructionThreshold(destructionThreshold', voidY')) ]_vars
C19_Initialisation ==
  ret.op = "constructor" =>
    /\ Len(platforms) >= 1 + Len(StarterPlatforms)
    /\ platforms[1].chunk = 0 /\ platforms[1].slot = 1
    /\ platforms[1].y = viewH - 100
    /\ \A i \in 1..Len(StarterPlatforms) :
          /\ platforms[i + 1].chunk = 0 /\ platforms[i + 1].slot = i + 1
          /\ platforms[i + 1].x = viewW + Px(StarterPlatforms[i].dx)
          /\ platforms[i + 1].y = (viewH - 100) - StarterPlatforms[i].dy
          /\ platforms[i + 1].displayWidth = StarterPlatforms[i].width
    /\ chunksGenerated = 3
    /\ GetStats.chunksGenerated = 3
    /\ nextChunkY = (viewH - 100) - 500 - 3 * CHUNK_HEIGHT
    /\ lastGeneratedY = nextChunkY

\* C19 witness: the constructor has returned for a viewport other than the
\* configured one, with platforms of the third initial chunk in the store.
C19_Witness ==
  /\ ret.op = "constructor"
  /\ viewH = GAME_HEIGHT + 96 /\ viewW = GAME_WIDTH - 128
  /\ \E i \in DOMAIN platforms : platforms[i].chunk = 3
\* C20: generateChunk terminates.  From every reachable state and for every
\* random stream its loop makes at most ceil(CHUNK_HEIGHT / 40) iterations;
\* the platform committed in iteration k lies at least 40 * k below the chunk
\* start, whether or not the earlier candidates were committed; no iteration
\* index commits twice (a rejected slot is not retried) and the commits are
\* no more than the iterations.
C20_GenerateChunkTerminates ==
  \A seed \in Seeds :
    \A g \in {GenerateChunk(Gen(seed))} :
      LET new == SelectSeq(g.platforms, LAMBDA p : p.chunk = chunksGenerated + 1)
      IN  /\ g.iterations * 40 <= CHUNK_HEIGHT + 39
          /\ g.iterations >= 1
          /\ Len(g.platforms) = Len(platforms) + Len(new)
          /\ Len(new) <= g.iterations
          /\ \A i \in DOMAIN new :
                /\ new[i].slot \in 1..g.iterations
                /\ new[i].y <= nextChunkY - 40 * new[i].slot
                /\ \A j \in DOMAIN new :
                      i < j => /\ new[i].slot < new[j].slot
                               /\ new[j].y <= new[i].y - 40 * (new[j].slot - new[i].slot)

\* C20 witness: a tick has generated a chunk in which a candidate was
\* rejected, and the next chunk would again have more iterations than commits.
C20_Witness ==
  /\ ret.op = "update" /\ ret.value = 1
  /\ \E i \in DOMAIN platforms :
        /\ platforms[i].chunk = chunksGenerated /\ platforms[i].slot > 1
        /\ \A j \in DOMAIN platforms :
              ~(platforms[j].chunk = chunksGenerated
                /\ platforms[j].slot = platforms[i].slot - 1)
  /\ \E seed \in Seeds :
        \E g \in {GenerateChunk(Gen(seed))} :
          Len(g.platforms) - Len(platforms) < g.iterations
\* C21: with the viewport held at a fixed cameraY, repeated update ticks reach
\* a state with lastGeneratedY + SAFE_SPAWN_DISTANCE <= cameraY and stay there,
\* generating no further chunk for that cameraY; and a tick whose cameraY is
\* at most CHUNK_HEIGHT above that of a tick that ended with the inequality
\* true ends with it true again.
GenerationAhead ==
  ret.op = "update" /\ lastGeneratedY + SAFE_SPAWN_DISTANCE <= ret.y
C21_GenerationKeepsPace ==
  /\ <>[]GenerationAhead
  /\ [][ ( /\ GenerationAhead
            /\ ret'.op = "update"
            /\ ret'.y <= ret.y
            /\ ret'.y >= ret.y - CHUNK_HEIGHT )
          => /\ GenerationAhead'
             /\ (ret'.y = ret.y => /\ chunksGenerated' = chunksGenerated
                                   /\ platforms' = platforms) ]_vars

\* C21 witness: generation is ahead again after the viewport, first held two
\* chunks past the frontier, rose by a whole CHUNK_HEIGHT and a chunk was
\* generated for it.
C21_Witness ==
  /\ GenerationAhead
  /\ ret.value = 1
  /\ chunksGenerated = MaxRunChunks
  /\ ret.y < viewH - 3000 - 1
\* The width and height (doubled, in half-pixels) of the intersection of the
\* box centred at (x, y), width wide and height tall, with the box of live
\* platform q; either is <= 0 when the boxes are apart or only touch.
IntersectionWidth(x, width, q) ==
  Min(x + width, q.x + q.displayWidth) - Max(x - width, q.x - q.displayWidth)
IntersectionHeight2(y, height, q) ==
  Min(2 * y + height, 2 * q.y + q.displayHeight)
    - Max(2 * y - height, 2 * q.y - q.displayHeight)

\* C22: a createUnifiedPlatform call is rejected exactly when the candidate
\* box (clamped centre, clamped width, PLATFORM_THICKNESS) and the box of some
\* live platform intersect with strictly positive width and height; a
\* candidate that shares only an edge or a corner is committed.
C22_TouchingIsNotOverlap ==
  [][ ret'.op = "createUnifiedPlatform" =>
        LET cx == Clamp(ret'.x, Px(CLAMP_MARGIN), Px(viewW) - Px(CLAMP_MARGIN))
            cw == Max(ret'.width, MIN_VISIBLE_WIDTH)
        IN  (ret'.value = NULL) <=>
              \E i \in DOMAIN platforms :
                /\ IntersectionWidth(cx, cw, platforms[i]) > 0
                /\ IntersectionHeight2(ret'.y, PLATFORM_THICKNESS, platforms[i]) > 0 ]_vars

\* C22 witness: a committed platform whose left edge is the right edge of a
\* live platform at the same height.
C22_Witness ==
  /\ ret.op = "createUnifiedPlatform" /\ ret.value # NULL
  /\ \E i, j \in DOMAIN platforms :
        /\ platforms[j].id = ret.value
        /\ platforms[i].id # ret.value
        /\ platforms[j].y = platforms[i].y
        /\ platforms[j].x - platforms[j].displayWidth
             = platforms[i].x + platforms[i].displayWidth
\* The x of the last committed candidate among the first k iterations of a
\* trail, the screen centre if there is none.
RECURSIVE LastCommittedX(_, _, _)
LastCommittedX(trail, k, centre) ==
  IF k = 0 THEN centre
  ELSE IF trail[k].value # NULL THEN trail[k].x
  ELSE LastCommittedX(trail, k - 1, centre)

\* C23: in generateChunk, from every reachable state and for every random
\* stream, the previousX an iteration starts with is the x of the last
\* candidate committed earlier in the chunk (the screen centre if none): a
\* rejected candidate does not move it; and a committed platform is stored
\* with the x previousX then takes.
C23_PreviousXFollowsCommits ==
  \A seed \in Seeds :
    \A g \in {GenerateChunk(Gen(seed))} :
      /\ \A k \in DOMAIN g.trail :
            g.trail[k].previousX = LastCommittedX(g.trail, k - 1, viewW)
      /\ \A k \in DOMAIN g.trail :
            g.trail[k].value # NULL =>
              \E i \in DOMAIN g.platforms :
                /\ g.platforms[i].id = g.trail[k].value
                /\ g.platforms[i].x = g.trail[k].x
\* C24: every generateChunk call lowers nextChunkY by exactly CHUNK_HEIGHT and
\* leaves lastGeneratedY = nextChunkY; the chunk starts where the chunk before
\* it ended (its first candidate lies one vertical gap below the nextChunkY
\* the call found); no other operation changes either cursor.
C24_CursorMonotonicity ==
  /\ [](lastGeneratedY = nextChunkY)
  /\ [][ IF ret'.op = "update" /\ ret'.value = 1
         THEN /\ nextChunkY' = nextChunkY - CHUNK_HEIGHT
              /\ nextChunkY' < nextChunkY
              /\ lastGeneratedY' = nextChunkY'
              /\ \A i \in DOMAIN platforms' :
                    (platforms'[i].chunk = chunksGenerated' /\ platforms'[i].slot = 1)
                      => /\ platforms'[i].y <= nextChunkY - STEPPING_STONE_MIN
                         /\ platforms'[i].y >= nextChunkY - VERTICAL_SPACING_MAX
         ELSE UNCHANGED <<nextChunkY, lastGeneratedY>> ]_vars

\* C24 witness: a sweep that destroyed platforms of a level holding a fourth
\* chunk whose first candidate was committed; the cursors are where that
\* chunk's generateChunk call left them.
C24_Witness ==
  /\ ret.op = "destroyPlatformsBelowVoid"
  /\ Len(destroyCalls) > 0
  /\ chunksGenerated = 4
  /\ nextChunkY = (viewH - 600) - 4 * CHUNK_HEIGHT
  /\ \E i \in DOMAIN platforms : platforms[i].chunk = 4 /\ platforms[i].slot = 1
\* The span of chunk n: it starts where the starters left nextChunkY, lowered
\* by one CHUNK_HEIGHT per earlier chunk.
ChunkStartY(n) == (viewH - 600) - (n - 1) * CHUNK_HEIGHT
ChunkEndY(n) == ChunkStartY(n) - CHUNK_HEIGHT

\* C25: every platform committed by a generateChunk call has its centre y
\* inside the span of its chunk, chunkEndY <= y < chunkStartY; no chunk places
\* a platform inside the span of the next chunk.
C25_ChunkSpanContainment ==
  \A i \in DOMAIN platforms :
    platforms[i].chunk >= 1 =>
      /\ platforms[i].y < ChunkStartY(platforms[i].chunk)
      /\ platforms[i].y >= ChunkEndY(platforms[i].chunk)
\* C26: when calculateNextPlatformPosition clamps the computed x against minX
\* (or maxX) the direction is still in wallBounceDirection when the call
\* returns, for the next call to apply; and two consecutive candidates are
\* never both pinned at the same edge x.
C26_WallBounceCarries ==
  [][ ret'.op = "calculateNextPlatformPosition" =>
        /\ ret'.clamped # 0 => wallBounceDirection' = ret'.clamped
        /\ (ret.op = "calculateNextPlatformPosition" /\ ret'.x = ret.x)
             => ret'.x \notin {MinX(ret'.width), MaxX(viewW, ret'.width)} ]_vars
\* Left and right edge of platform p (half-pixels), and the screen margin the
\* placement of a platform of its width observes
LeftEdge(p) == p.x - p.displayWidth
RightEdge(p) == p.x + p.displayWidth
MarginOf(p) == Max(Px(SCREEN_MARGIN), p.displayWidth + Px(10))

\* C27: every platform committed by generateChunk has a width in
\* [PLATFORM_MIN_WIDTH, PLATFORM_MAX_WIDTH], its left edge x - width / 2 at or
\* right of the screen margin and its right edge x + width / 2 at or left of
\* worldWidth - margin, and the clamp of createUnifiedPlatform to
\* [50, worldWidth - 50] left its centre where the candidate was.
C27_WorldBoundContainment ==
  \A i \in DOMAIN platforms :
    platforms[i].chunk >= 1 =>
      /\ platforms[i].displayWidth \in PLATFORM_MIN_WIDTH..PLATFORM_MAX_WIDTH
      /\ LeftEdge(platforms[i]) >= MarginOf(platforms[i])
      /\ RightEdge(platforms[i]) <= Px(viewW) - MarginOf(platforms[i])
      /\ platforms[i].x = platforms[i].platformData.originalX
      /\ platforms[i].x \in Px(CLAMP_MARGIN)..Px(viewW - CLAMP_MARGIN)

\* C27 witness: generated platforms that were clamped at the left bound and
\* at the right bound and moved 20 px back inside are live, one of them of
\* the largest width.
C27_Witness ==
  /\ \E i \in DOMAIN platforms :
        /\ platforms[i].chunk >= 1
        /\ LeftEdge(platforms[i]) = MarginOf(platforms[i]) + Px(20)
  /\ \E i \in DOMAIN platforms :
        /\ platforms[i].chunk >= 1
        /\ RightEdge(platforms[i]) = Px(viewW) - MarginOf(platforms[i]) - Px(20)
  /\ \E i \in DOMAIN platforms :
        /\ platforms[i].chunk >= 1
        /\ platforms[i].displayWidth >= PLATFORM_MAX_WIDTH - 10
\* C28: after any sequence of updateVoidMovement and checkPlatformDestruction
\* calls getDestructionThreshold() returns the current voidY +
\* PLATFORM_DESTRUCTION_OFFSET.
C28_ThresholdTracksVoid ==
  GetDestructionThreshold(destructionThreshold, voidY)
    = voidY + PLATFORM_DESTRUCTION_OFFSET
\* The live platforms: committed and not yet handed to destroyPlatform
LivePlatforms == SelectSeq(platforms, LAMBDA p : p.id \in platformGroup)
LiveEmitters == SelectSeq(LivePlatforms, LAMBDA p : p.platformData.isLightEmitter)

Geometry(p) ==
  [x |-> p.x, y |-> p.y, width |-> p.displayWidth, height |-> p.displayHeight,
   body |-> p.body]

\* The platforms of ps as (id, geometry) pairs
GeometryOf(ps) == { <<ps[i].id, Geometry(ps[i])>> : i \in DOMAIN ps }

\* C30: no operation changes the centre, the width, the height or the body
\* rectangle of a platform that is live before and after it, in platforms and
\* in lightEmitterPlatforms alike.
C30_CommittedGeometryImmutable ==
  [][ \A before \in {GeometryOf(platforms)}, ids \in {Ids(platforms)} :
        \A e \in GeometryOf(platforms') \cup GeometryOf(lightEmitterPlatforms') :
          e[1] \in ids => e \in before ]_vars

\* C30 witness: a sweep has destroyed some platforms and left others live,
\* light emitters among them, on a level for which a tick generated a fourth
\* chunk through createUnifiedPlatform.
C30_Witness ==
  /\ ret.op = "destroyPlatformsBelowVoid"
  /\ Len(destroyCalls) > 0
  /\ Len(lightEmitterPlatforms) > 0
  /\ chunksGenerated = 4
  /\ \E i \in DOMAIN platforms : platforms[i].chunk = 4
====
